---------------------------- MODULE Spec2Model ----------------------------
(***************************************************************************)
(* pynslcd/common.py: the Search generator (query engine and per-entry     *)
(* reconciliation) and the Request handler that drives it and writes the   *)
(* results to the client stream.                                           *)
(***************************************************************************)
EXTENDS Integers, Sequences, FiniteSets, TLC

(***************************************************************************)
(* Bounds of the model.                                                    *)
(***************************************************************************)
\* values one attribute of a directory entry holds at most
MaxVals == 3
\* entries the directory returns, in total, during one request
MaxEntries == 3
\* search bases of the request type
MaxBases == 3

(***************************************************************************)
(* Python values.  A value is a str, an int or None; the kind is kept so   *)
(* that '1' == 1 is false, as in Python.                                   *)
(***************************************************************************)
StrV(s) == [kind |-> "str", n |-> 0, s |-> s]
IntV(n) == [kind |-> "int", n |-> n, s |-> ""]
NoneV == [kind |-> "none", n |-> 0, s |-> ""]

\* truth value of a Python value: None, 0 and '' are false
Truthy(v) ==
    CASE v.kind = "none" -> FALSE
      [] v.kind = "int" -> v.n # 0
      [] OTHER -> v.s # ""

Digits == <<"0", "1", "2", "3", "4", "5", "6", "7", "8", "9">>

\* str(value), for the values the model draws (str, or an int of one digit)
Str(v) ==
    CASE v.kind = "int" -> StrV(Digits[v.n + 1])
      [] v.kind = "none" -> StrV("None")
      [] OTHER -> v

\* the characters of the model's strings that have a lower-case form
LowerS(s) ==
    CASE s = "A" -> "a"
      [] s = "B" -> "b"
      [] OTHER -> s

\* str.lower()
Lower(v) == StrV(LowerS(v.s))

Range(seq) == {seq[i] : i \in 1..Len(seq)}

\* list.remove(x): the list without the first occurrence of x
Remove(values, x) ==
    IF x \notin Range(values) THEN values
    ELSE LET i == CHOOSE j \in 1..Len(values) :
                      /\ values[j] = x
                      /\ \A k \in 1..(j - 1) : values[k] # x
         IN SubSeq(values, 1, i - 1) \o SubSeq(values, i + 1, Len(values))

\* dict.get(key, None)
Get(dict, key) == IF key \in DOMAIN dict THEN dict[key] ELSE NoneV

(***************************************************************************)
(* The module that defines the request type: logical fields, the attribute *)
(* mapping and the search bases.                                           *)
(***************************************************************************)
Fields == {"uid", "gecos"}

\* logical field -> directory attribute
attmap == [uid |-> "uid", gecos |-> "cn"]

BaseNames == <<"ou=people", "ou=special", "ou=extra", "ou=more">>

\* self.bases
bases == SubSeq(BaseNames, 1, MaxBases)

\* attmap.translate(attributes): every logical field with the values of the
\* directory attribute it maps to, no values when the entry lacks it
Translate(attributes) ==
    [f \in Fields |->
        IF attmap[f] \in DOMAIN attributes THEN attributes[attmap[f]] ELSE <<>>]

(***************************************************************************)
(* Distinguished names, as ldap.dn.str2dn() returns them: a sequence of    *)
(* relative names, each a sequence of (attribute, value) pairs.  The empty *)
(* DN is the empty sequence.                                               *)
(***************************************************************************)
Ava(a, v) == [attr |-> a, value |-> StrV(v)]

\* dict((x, y) for x, y, z in rdn): a later pair of the same attribute wins
RdnDict(rdn) ==
    [a \in {rdn[i].attr : i \in 1..Len(rdn)} |->
        LET last == CHOOSE i \in 1..Len(rdn) :
                        /\ rdn[i].attr = a
                        /\ \A k \in (i + 1)..Len(rdn) : rdn[k].attr # a
        IN rdn[last].value]

\* get_rdn_value(dn, attribute): the subscript raises KeyError when the
\* first relative name has no such attribute
get_rdn_value(dn, attribute) ==
    LET d == RdnDict(dn[1])
    IN IF attribute \in DOMAIN d
       THEN [raised |-> FALSE, value |-> d[attribute]]
       ELSE [raised |-> TRUE, value |-> NoneV]


(***************************************************************************)
(* Search.handle_entry, step by step.  A query descriptor is the five      *)
(* class attributes of a Search subclass, each a sequence of fields.       *)
(***************************************************************************)
NoAttributes == [f \in Fields |-> <<>>]

\* the first, DN-derived value moved or added to the front of the values
CanonicalValues(primary_value, values) ==
    <<primary_value>> \o Remove(values, primary_value)

\* the loop over canonical_first; raised when get_rdn_value raises KeyError
RECURSIVE CanonicalFirst(_, _, _)
CanonicalFirst(canonical_first, dn, attributes) ==
    IF canonical_first = <<>> THEN [raised |-> FALSE, attributes |-> attributes]
    ELSE LET attr == Head(canonical_first)
             primary == get_rdn_value(dn, attmap[attr])
         IN IF primary.raised THEN [raised |-> TRUE, attributes |-> attributes]
            ELSE IF Truthy(primary.value)
            THEN CanonicalFirst(Tail(canonical_first), dn,
                     [attributes EXCEPT
                         ![attr] = CanonicalValues(primary.value, attributes[attr])])
            ELSE CanonicalFirst(Tail(canonical_first), dn, attributes)

\* the loop over required left out: no field is checked
RequiredNotChecked(required, attributes) == TRUE

\* the loop over required: every field has at least one value
RequiredPresent(required, attributes) ==
    \A i \in 1..Len(required) :
        /\ required[i] \in DOMAIN attributes
        /\ attributes[required[i]] # <<>>

\* the test of one case_sensitive field: TRUE when the entry passes
CaseSensitiveMatch(value, values) ==
    ~(Truthy(value) /\ Str(value) \notin Range(values))

\* the test of one case_insensitive field: TRUE when the entry passes
CaseInsensitiveMatch(value, values) ==
    ~(Truthy(value) /\ Lower(Str(value)) \notin {Lower(x) : x \in Range(values)})

\* the loop over case_sensitive
CaseSensitiveOk(case_sensitive, parameters, attributes) ==
    \A i \in 1..Len(case_sensitive) :
        CaseSensitiveMatch(Get(parameters, case_sensitive[i]),
                           attributes[case_sensitive[i]])

\* the loop over case_insensitive
CaseInsensitiveOk(case_insensitive, parameters, attributes) ==
    \A i \in 1..Len(case_insensitive) :
        CaseInsensitiveMatch(Get(parameters, case_insensitive[i]),
                             attributes[case_insensitive[i]])

\* the loop over limit_attributes
LimitAttributes(limit_attributes, parameters, attributes) ==
    [f \in Fields |->
        IF f \in Range(limit_attributes) /\ f \in DOMAIN parameters
        THEN <<parameters[f]>>
        ELSE attributes[f]]

\* the attributes as the required and case-match checks see them
Checked(d, dn, attributes) ==
    CanonicalFirst(d.canonical_first, dn, Translate(attributes))

\* the checks of handle_entry, on the attributes after the canonical_first loop
Accepts(d, parameters, attributes) ==
    /\ RequiredPresent(d.required, attributes)
    /\ CaseSensitiveOk(d.case_sensitive, parameters, attributes)
    /\ CaseInsensitiveOk(d.case_insensitive, parameters, attributes)

\* handle_entry with the limit_attributes loop moved before the checks
handle_entry_limits_first(d, parameters, dn, attributes) ==
    LET canon == Checked(d, dn, attributes)
        limited == LimitAttributes(d.limit_attributes, parameters, canon.attributes)
    IN IF canon.raised
       THEN [status |-> "KeyError", dn |-> dn, attributes |-> NoAttributes]
       ELSE IF ~Accepts(d, parameters, limited)
       THEN [status |-> "None", dn |-> dn, attributes |-> NoAttributes]
       ELSE [status |-> "entry", dn |-> dn, attributes |-> limited]

\* handle_entry(dn, attributes): "KeyError" (raised), "None" (the entry is
\* skipped) or "entry" (the pair dn, attributes is returned)
handle_entry(d, parameters, dn, attributes) ==
    LET canon == Checked(d, dn, attributes)
    IN IF canon.raised
       THEN [status |-> "KeyError", dn |-> dn, attributes |-> NoAttributes]
       ELSE IF ~Accepts(d, parameters, canon.attributes)
       THEN [status |-> "None", dn |-> dn, attributes |-> NoAttributes]
       ELSE [status |-> "entry", dn |-> dn,
             attributes |-> LimitAttributes(d.limit_attributes, parameters,
                                            canon.attributes)]

(***************************************************************************)
(* Search.mk_filter.  A filter is a string, kept as the sequence of its    *)
(* characters so that formatting and escaping act on it as in Python.      *)
(***************************************************************************)
\* the characters of a string of the model: an attribute name, or a value
\* of at most one character
Chars(s) ==
    CASE s = "" -> <<>>
      [] s = "uid" -> <<"u", "i", "d">>
      [] s = "cn" -> <<"c", "n">>
      [] OTHER -> <<s>>

\* self.filter: the filter of the module that defines the request type
base_filter == <<"(", "o", "c", "=", "p", ")">>

\* what ldap.filter.escape_filter_chars() makes of one character
EscapeChar(c) ==
    CASE c = "\\" -> <<"\\", "5", "c">>
      [] c = "*" -> <<"\\", "2", "a">>
      [] c = "(" -> <<"\\", "2", "8">>
      [] c = ")" -> <<"\\", "2", "9">>
      [] c = "NUL" -> <<"\\", "0", "0">>
      [] OTHER -> <<c>>

RECURSIVE escape_filter_chars(_)
\* ldap.filter.escape_filter_chars(s)
escape_filter_chars(s) ==
    IF s = <<>> THEN <<>> ELSE EscapeChar(Head(s)) \o escape_filter_chars(Tail(s))

RECURSIVE Join(_, _)
\* sep.join(strings)
Join(strings, sep) ==
    IF strings = <<>> THEN <<>>
    ELSE IF Len(strings) = 1 THEN strings[1]
    ELSE strings[1] \o sep \o Join(Tail(strings), sep)

\* '%s=%s' % (self.attmap[attribute], escape_filter_chars(str(value))) with
\* the escaping left out
FilterTermUnescaped(attribute, value) ==
    Chars(attmap[attribute]) \o <<"=">> \o Chars(Str(value).s)

\* '%s=%s' % (self.attmap[attribute], escape_filter_chars(str(value)))
FilterTerm(attribute, value) ==
    Chars(attmap[attribute]) \o <<"=">> \o escape_filter_chars(Chars(Str(value).s))

\* mk_filter(): the parameters are taken in the order the dict gives them
mk_filter(base, parameters, order) ==
    IF DOMAIN parameters # {}
    THEN <<"(", "&">> \o base \o <<"(">> \o
         Join([i \in 1..Len(order) |-> FilterTerm(order[i], parameters[order[i]])],
              <<")", "(">>) \o
         <<")", ")">>
    ELSE base

\* the orders in which a dict can give its items: each key once
Orders(dict) ==
    {s \in [1..Cardinality(DOMAIN dict) -> DOMAIN dict] :
        \A i, j \in 1..Cardinality(DOMAIN dict) : s[i] = s[j] => i = j}

(***************************************************************************)
(* What the model draws from: request types, request parameters and the    *)
(* entries of the directory.                                               *)
(***************************************************************************)
\* a class attribute that lists fields: empty (the default) or the key field
FieldLists == {<<>>, <<"uid">>}

\* every way to classify the key field
AllDescriptors ==
    [canonical_first : FieldLists, required : FieldLists,
     case_sensitive : FieldLists, case_insensitive : FieldLists,
     limit_attributes : FieldLists]

\* the Search base class, a lookup by name or id (as passwd) and a lookup
\* that ignores case (as aliases)
Descriptors ==
    { [canonical_first |-> <<>>, required |-> <<>>, case_sensitive |-> <<>>,
       case_insensitive |-> <<>>, limit_attributes |-> <<>>],
      [canonical_first |-> <<"uid">>, required |-> <<"uid">>,
       case_sensitive |-> <<"uid">>, case_insensitive |-> <<>>,
       limit_attributes |-> <<"uid">>],
      [canonical_first |-> <<>>, required |-> <<"uid">>, case_sensitive |-> <<>>,
       case_insensitive |-> <<"uid">>, limit_attributes |-> <<"uid">>] }

\* no parameters (read_parameters() returned nothing)
NoParameters == [f \in {} |-> NoneV]

\* a request for one key
ByKey(v) == [f \in {"uid"} |-> v]

\* the parameters of a request: none, a name, the empty name, a numeric id
AllParameters ==
    {NoParameters} \cup
    {ByKey(v) : v \in {StrV("a"), StrV("A"), StrV(""), IntV(0), IntV(1)}}

\* the strings the directory holds
DirStrings == {"a", "A", "1"}

\* sequences of directory strings of length 1..n
RECURSIVE ValueSeqs(_)
ValueSeqs(n) ==
    IF n = 0 THEN {}
    ELSE {<<StrV(s)>> : s \in DirStrings} \cup ValueSeqs(n - 1) \cup
         {Append(q, StrV(s)) : q \in ValueSeqs(n - 1), s \in DirStrings}

Suffix == <<Ava("dc", "x")>>

\* the DN of a search result: empty (a referral), named by the key
\* attribute, named by another attribute, named by an empty key value,
\* named by both attributes
DNs ==
    { <<>>, << <<Ava("uid", "a")>>, Suffix >>, << <<Ava("cn", "a")>>, Suffix >>,
      << <<Ava("uid", "")>>, Suffix >>,
      << <<Ava("cn", "a"), Ava("uid", "a")>>, Suffix >> }

\* the attributes of a search result: the key attribute is absent or holds
\* 1..MaxVals values
AllAttributes ==
    {[a \in {} |-> <<>>]} \cup {[a \in {"uid"} |-> q] : q \in ValueSeqs(MaxVals)}

AllEntries == [dn : DNs, attributes : AllAttributes]

Entry(dn, attributes) == [dn |-> dn, attributes |-> attributes]

\* the entries the directory of the request model holds
DirectoryEntries ==
    { Entry(<< <<Ava("uid", "a")>>, Suffix >>, [a \in {"uid"} |-> <<StrV("a")>>]),
      Entry(<< <<Ava("cn", "a")>>, Suffix >>, [a \in {"uid"} |-> <<StrV("A")>>]),
      Entry(<< <<Ava("uid", "a")>>, Suffix >>, [a \in {} |-> <<>>]),
      Entry(<<>>, [a \in {"uid"} |-> <<StrV("a")>>]) }

\* lists of directory entries of length 0..n
RECURSIVE EntryLists(_)
EntryLists(n) ==
    IF n = 0 THEN {<<>>}
    ELSE EntryLists(n - 1) \cup
         {Append(q, e) : q \in EntryLists(n - 1), e \in DirectoryEntries}

(***************************************************************************)
(* One request: Request.__call__ driving the Search generator.             *)
(***************************************************************************)
VARIABLES
    desc,        \* the class attributes of the Search subclass
    parameters,  \* the request parameters, as read
    pc,          \* where the request is
    exc,         \* the exception that ended the request, "" when none
    stream,      \* self.fp: what has been written to the client
    bi,          \* index in self.bases of the base being searched
    results,     \* what conn.search_s() returned for that base
    ei,          \* index in results of the next entry
    entry,       \* what handle_entry() returned last
    searches,    \* history: every call of conn.search_s() and its outcome
    events,      \* history: the calls made, in order
    items,       \* the order in which the parameters dict gives its items
    filter,      \* the search filter mk_filter() returned
    iteration,   \* 1, or 2 when the same search is made a second time
    first,       \* what the first of two searches did
    name,        \* the argument of isvalidname()
    valid,       \* what isvalidname() returned
    module,      \* the argument of get_handlers(): the members of a module
    handlers     \* what get_handlers() returned

vars == <<desc, parameters, pc, exc, stream, bi, results, ei, entry, searches,
          events, items, filter, iteration, first, name, valid, module, handlers>>

\* the variables no step of a request changes
others == <<iteration, first, name, valid, module, handlers>>

\* an integer code and a result record, as items of the client stream
Int32(code) == [type |-> "int32", code |-> code, dn |-> <<>>,
                attributes |-> NoAttributes]
Record(dn, attributes) == [type |-> "record", code |-> "", dn |-> dn,
                           attributes |-> attributes]

NoEntry == [status |-> "", dn |-> <<>>, attributes |-> NoAttributes]

\* one call of conn.search_s() and what it did
Searched(base, outcome, entries) ==
    [base |-> base, filter |-> filter, outcome |-> outcome, entries |-> entries]

RECURSIVE Returned(_)
\* the number of entries the searches of the log returned
Returned(log) ==
    IF log = <<>> THEN 0 ELSE Len(Head(log).entries) + Returned(Tail(log))

\* a request for two keys, one of them with a character that filters escape
TwoKeys == [f \in Fields |-> IF f = "uid" THEN StrV("*") ELSE StrV("a")]

\* the parameters read_parameters() of the request model returns
RequestParameters == {NoParameters, ByKey(StrV("a")), TwoKeys}

\* nothing to compare a search with
NoFirst == [stream |-> <<>>, exc |-> "", searches |-> <<>>]

\* no pure function has been called
Idle ==
    /\ name = <<>>
    /\ valid = "unknown"
    /\ module = {}
    /\ handlers = <<>>

Init ==
    /\ desc \in Descriptors
    /\ parameters = NoParameters
    /\ pc = "read"
    /\ exc = ""
    /\ stream = <<>>
    /\ bi = 0
    /\ results = <<>>
    /\ ei = 0
    /\ entry = NoEntry
    /\ searches = <<>>
    /\ events = <<>>
    /\ items = <<>>
    /\ filter = <<>>
    /\ iteration = 1
    /\ first = NoFirst
    /\ Idle

\* read_parameters() whose decode error is noted and not raised
ReadParametersGoesOn ==
    /\ pc = "read"
    /\ events' = Append(events, "read_parameters")
    /\ \/ /\ pc' = "version"
          /\ exc' = "ProtocolDecodeError"
          /\ UNCHANGED <<parameters, items>>
       \/ /\ parameters' \in RequestParameters
          /\ items' \in Orders(parameters')
          /\ pc' = "version"
          /\ UNCHANGED exc
    /\ UNCHANGED <<desc, stream, bi, results, ei, entry, searches>>
    /\ UNCHANGED <<filter, others>>

\* parameters = self.read_parameters(self.fp) or {}
ReadParameters ==
    /\ pc = "read"
    /\ events' = Append(events, "read_parameters")
    /\ \/ /\ pc' = "raised"
          /\ exc' = "ProtocolDecodeError"
          /\ UNCHANGED <<parameters, items>>
       \/ /\ parameters' \in RequestParameters
          /\ items' \in Orders(parameters')
          /\ pc' = "version"
          /\ UNCHANGED exc
    /\ UNCHANGED <<desc, stream, bi, results, ei, entry, searches>>
    /\ UNCHANGED <<filter, others>>

\* the version tag left out
WriteVersionSkipped ==
    /\ pc = "version"
    /\ pc' = "action"
    /\ UNCHANGED <<desc, parameters, exc, stream, bi, results, ei, entry, searches,
                   events>>
    /\ UNCHANGED <<items, filter, others>>

\* self.fp.write_int32(constants.NSLCD_VERSION)
WriteVersion ==
    /\ pc = "version"
    /\ stream' = Append(stream, Int32("NSLCD_VERSION"))
    /\ events' = Append(events, "write_int32")
    /\ pc' = "action"
    /\ UNCHANGED <<desc, parameters, exc, bi, results, ei, entry, searches>>
    /\ UNCHANGED <<items, filter, others>>

\* self.fp.write_int32(self.action), then handle_request() starts the search
WriteAction ==
    /\ pc = "action"
    /\ stream' = Append(stream, Int32("action"))
    /\ events' = Append(events, "write_int32")
    /\ pc' = "filter"
    /\ UNCHANGED <<desc, parameters, exc, bi, results, ei, entry, searches>>
    /\ UNCHANGED <<items, filter, others>>

\* the generator starts: filter = self.mk_filter(), then the loop over bases
MkFilter ==
    /\ pc = "filter"
    /\ filter' = mk_filter(base_filter, parameters, items)
    /\ bi' = 1
    /\ pc' = "search"
    /\ UNCHANGED <<desc, parameters, exc, stream, results, ei, entry, searches,
                   events>>
    /\ UNCHANGED <<items, others>>

\* the directory does not change between two iterations of one Search: a
\* search with the base and filter of an earlier one has the same outcome
SameDirectory(search) ==
    \A i \in 1..Len(first.searches) :
        (first.searches[i].base = search.base /\
         first.searches[i].filter = search.filter) =>
            /\ search.outcome = first.searches[i].outcome
            /\ search.entries = first.searches[i].entries

\* a search whose every exception is caught, as ldap.NO_SUCH_OBJECT is
SearchBaseCatchesAll ==
    /\ pc = "search"
    /\ bi <= Len(bases)
    /\ events' = Append(events, "search_s")
    /\ \/ /\ searches' = Append(searches, Searched(bases[bi], "NO_SUCH_OBJECT", <<>>))
          /\ bi' = bi + 1
          /\ UNCHANGED <<pc, exc, results, ei>>
       \/ /\ searches' = Append(searches, Searched(bases[bi], "error", <<>>))
          /\ bi' = bi + 1
          /\ UNCHANGED <<pc, exc, results, ei>>
       \/ \E list \in EntryLists(MaxEntries - Returned(searches)) :
             /\ searches' = Append(searches, Searched(bases[bi], "entries", list))
             /\ results' = list
             /\ ei' = 1
             /\ pc' = "iter"
             /\ UNCHANGED <<bi, exc>>
    /\ SameDirectory(searches'[Len(searches')])
    /\ UNCHANGED <<desc, parameters, stream, entry>>
    /\ UNCHANGED <<items, filter, others>>

\* a search that is tried again on a base that does not exist
SearchBaseRetries ==
    /\ pc = "search"
    /\ bi <= Len(bases)
    /\ events' = Append(events, "search_s")
    /\ \/ /\ searches' = Append(searches, Searched(bases[bi], "NO_SUCH_OBJECT", <<>>))
          /\ UNCHANGED <<bi, pc, exc, results, ei>>
       \/ /\ searches' = Append(searches, Searched(bases[bi], "error", <<>>))
          /\ pc' = "raised"
          /\ exc' = "DirectoryError"
          /\ UNCHANGED <<bi, results, ei>>
       \/ \E list \in EntryLists(MaxEntries - Returned(searches)) :
             /\ searches' = Append(searches, Searched(bases[bi], "entries", list))
             /\ results' = list
             /\ ei' = 1
             /\ pc' = "iter"
             /\ UNCHANGED <<bi, exc>>
    /\ SameDirectory(searches'[Len(searches')])
    /\ UNCHANGED <<desc, parameters, stream, entry>>
    /\ UNCHANGED <<items, filter, others>>

\* conn.search_s(base, ...) for the next base: it returns a list of entries,
\* raises ldap.NO_SUCH_OBJECT (the base is skipped) or raises another error
SearchBase ==
    /\ pc = "search"
    /\ bi <= Len(bases)
    /\ events' = Append(events, "search_s")
    /\ \/ /\ searches' = Append(searches, Searched(bases[bi], "NO_SUCH_OBJECT", <<>>))
          /\ bi' = bi + 1
          /\ UNCHANGED <<pc, exc, results, ei>>
       \/ /\ searches' = Append(searches, Searched(bases[bi], "error", <<>>))
          /\ pc' = "raised"
          /\ exc' = "DirectoryError"
          /\ UNCHANGED <<bi, results, ei>>
       \/ \E list \in EntryLists(MaxEntries - Returned(searches)) :
             /\ searches' = Append(searches, Searched(bases[bi], "entries", list))
             /\ results' = list
             /\ ei' = 1
             /\ pc' = "iter"
             /\ UNCHANGED <<bi, exc>>
    /\ SameDirectory(searches'[Len(searches')])
    /\ UNCHANGED <<desc, parameters, stream, entry>>
    /\ UNCHANGED <<items, filter, others>>

\* a loop that ends at the first rejected entry (break for continue)
NextEntryBreaks ==
    /\ pc = "iter"
    /\ ei <= Len(results)
    /\ IF results[ei].dn = <<>>
       THEN /\ ei' = ei + 1
            /\ UNCHANGED <<pc, exc, entry, events>>
       ELSE LET r == handle_entry(desc, parameters, results[ei].dn,
                                  results[ei].attributes)
            IN /\ entry' = r
               /\ events' = Append(events, "handle_entry")
               /\ CASE r.status = "KeyError" ->
                         /\ pc' = "raised"
                         /\ exc' = "KeyError"
                         /\ UNCHANGED ei
                    [] r.status = "None" ->
                         /\ ei' = Len(results) + 1
                         /\ UNCHANGED <<pc, exc>>
                    [] OTHER ->
                         /\ pc' = "write"
                         /\ UNCHANGED <<ei, exc>>
    /\ UNCHANGED <<desc, parameters, stream, bi, results, searches>>
    /\ UNCHANGED <<items, filter, others>>

\* the body of the loop over the entries of one base: an entry without a DN
\* is skipped, the others go through handle_entry()
NextEntry ==
    /\ pc = "iter"
    /\ ei <= Len(results)
    /\ IF results[ei].dn = <<>>
       THEN /\ ei' = ei + 1
            /\ UNCHANGED <<pc, exc, entry, events>>
       ELSE LET r == handle_entry(desc, parameters, results[ei].dn,
                                  results[ei].attributes)
            IN /\ entry' = r
               /\ events' = Append(events, "handle_entry")
               /\ CASE r.status = "KeyError" ->
                         /\ pc' = "raised"
                         /\ exc' = "KeyError"
                         /\ UNCHANGED ei
                    [] r.status = "None" ->
                         /\ ei' = ei + 1
                         /\ UNCHANGED <<pc, exc>>
                    [] OTHER ->
                         /\ pc' = "write"
                         /\ UNCHANGED <<ei, exc>>
    /\ UNCHANGED <<desc, parameters, stream, bi, results, searches>>
    /\ UNCHANGED <<items, filter, others>>

\* a record that is kept back instead of written when the entry is yielded
WriteRecordLater ==
    /\ pc = "write"
    /\ ei' = ei + 1
    /\ pc' = "iter"
    /\ UNCHANGED <<desc, parameters, exc, stream, bi, results, entry, searches,
                   events>>
    /\ UNCHANGED <<items, filter, others>>

\* self.write(dn, attributes, parameters) for the entry the generator yielded
WriteRecord ==
    /\ pc = "write"
    /\ stream' = Append(stream, Record(entry.dn, entry.attributes))
    /\ events' = Append(events, "write")
    /\ ei' = ei + 1
    /\ pc' = "iter"
    /\ UNCHANGED <<desc, parameters, exc, bi, results, entry, searches>>
    /\ UNCHANGED <<items, filter, others>>

\* the entries of one base are exhausted: on to the next base
EndOfResults ==
    /\ pc = "iter"
    /\ ei > Len(results)
    /\ bi' = bi + 1
    /\ results' = <<>>
    /\ ei' = 0
    /\ pc' = "search"
    /\ UNCHANGED <<desc, parameters, exc, stream, entry, searches, events>>
    /\ UNCHANGED <<items, filter, others>>

\* the generator is exhausted: self.fp.write_int32(constants.NSLCD_RESULT_END)
WriteEnd ==
    /\ pc = "search"
    /\ bi > Len(bases)
    /\ stream' = Append(stream, Int32("NSLCD_RESULT_END"))
    /\ events' = Append(events, "write_int32")
    /\ pc' = "done"
    /\ UNCHANGED <<desc, parameters, exc, bi, results, ei, entry, searches>>
    /\ UNCHANGED <<items, filter, others>>

\* the generator of a second iteration that starts exhausted
IterateAgainExhausted ==
    /\ iteration = 1
    /\ \/ pc = "search" /\ bi > Len(bases)
       \/ pc = "raised"
    /\ first' = [stream |-> stream, exc |-> exc, searches |-> searches]
    /\ iteration' = 2
    /\ pc' = "search"
    /\ bi' = Len(bases) + 1
    /\ exc' = ""
    /\ stream' = <<>>
    /\ results' = <<>>
    /\ ei' = 0
    /\ entry' = NoEntry
    /\ searches' = <<>>
    /\ events' = <<>>
    /\ filter' = <<>>
    /\ UNCHANGED <<desc, parameters, items, name, valid, module, handlers>>

\* iter(search) once more, after an iteration that ended (exhausted or with
\* an exception): __iter__ returns self(), a new generator of the same
\* Search object, and the consumer collects what it yields in a new list
IterateAgain ==
    /\ iteration = 1
    /\ \/ pc = "search" /\ bi > Len(bases)
       \/ pc = "raised"
    /\ first' = [stream |-> stream, exc |-> exc, searches |-> searches]
    /\ iteration' = 2
    /\ pc' = "filter"
    /\ bi' = 0
    /\ exc' = ""
    /\ stream' = <<>>
    /\ results' = <<>>
    /\ ei' = 0
    /\ entry' = NoEntry
    /\ searches' = <<>>
    /\ events' = <<>>
    /\ filter' = <<>>
    /\ UNCHANGED <<desc, parameters, items, name, valid, module, handlers>>

Next ==
    \/ ReadParameters
    \/ WriteVersion
    \/ WriteAction
    \/ MkFilter
    \/ SearchBase
    \/ NextEntry
    \/ WriteRecord
    \/ EndOfResults
    \/ WriteEnd

Spec == Init /\ [][Next]_vars

(***************************************************************************)
(* The reconciliation of one entry, over every request type, every request *)
(* parameter and every entry: the request has reached its last base (the   *)
(* earlier ones do not exist) and the search on it has returned one entry. *)
(***************************************************************************)
InitEntry ==
    /\ desc \in AllDescriptors
    /\ parameters \in AllParameters
    /\ pc = "iter"
    /\ exc = ""
    /\ stream = <<Int32("NSLCD_VERSION"), Int32("action")>>
    /\ items \in Orders(parameters)
    /\ filter = mk_filter(base_filter, parameters, items)
    /\ iteration = 1
    /\ first = NoFirst
    /\ Idle
    /\ bi = Len(bases)
    /\ results \in {<<e>> : e \in AllEntries}
    /\ ei = 1
    /\ entry = NoEntry
    /\ searches =
           [i \in 1..Len(bases) |->
               IF i < Len(bases) THEN Searched(bases[i], "NO_SUCH_OBJECT", <<>>)
               ELSE Searched(bases[i], "entries", results)]
    /\ events = <<"read_parameters", "write_int32", "write_int32">> \o
                [i \in 1..Len(bases) |-> "search_s"]

NextReconcile ==
    \/ NextEntry
    \/ WriteRecord
    \/ EndOfResults
    \/ WriteEnd

SpecEntry == InitEntry /\ [][NextReconcile]_vars

(***************************************************************************)
(* One Search object that is iterated twice: it is constructed for some    *)
(* request type and parameters, and a consumer collects in stream what     *)
(* each iteration yields.                                                  *)
(***************************************************************************)
InitTwice ==
    /\ desc \in {d \in Descriptors : d.canonical_first # <<>>}
    /\ parameters = ByKey(StrV("a"))
    /\ items \in Orders(parameters)
    /\ pc = "filter"
    /\ exc = ""
    /\ stream = <<>>
    /\ bi = 0
    /\ results = <<>>
    /\ ei = 0
    /\ entry = NoEntry
    /\ searches = <<>>
    /\ events = <<>>
    /\ filter = <<>>
    /\ iteration = 1
    /\ first = NoFirst
    /\ Idle

NextTwice ==
    \/ MkFilter
    \/ SearchBase
    \/ NextEntry
    \/ WriteRecord
    \/ EndOfResults
    \/ IterateAgain

SpecTwice == InitTwice /\ [][NextTwice]_vars

(***************************************************************************)
(* isvalidname.  A name is the sequence of its characters; the pattern     *)
(* _validname_re is matched as re.match does with re.IGNORECASE.           *)
(***************************************************************************)
LowerLetters ==
    <<"a", "b", "c", "d", "e", "f", "g", "h", "i", "j", "k", "l", "m",
      "n", "o", "p", "q", "r", "s", "t", "u", "v", "w", "x", "y", "z">>

UpperLetters ==
    <<"A", "B", "C", "D", "E", "F", "G", "H", "I", "J", "K", "L", "M",
      "N", "O", "P", "Q", "R", "S", "T", "U", "V", "W", "X", "Y", "Z">>

\* re.IGNORECASE: a character is compared by its lower-case form
Fold(c) ==
    IF \E i \in 1..Len(UpperLetters) : UpperLetters[i] = c
    THEN LowerLetters[CHOOSE i \in 1..Len(UpperLetters) : UpperLetters[i] = c]
    ELSE c

\* [a-z0-9._@$]
FirstClass == Range(LowerLetters) \cup Range(Digits) \cup {".", "_", "@", "$"}

\* [a-z0-9._@$ \\~-]: in the raw string \\ is an escaped backslash
InteriorClass == FirstClass \cup {" ", "\\", "~", "-"}

\* [a-z0-9._@$~-]
LastClass == FirstClass \cup {"~", "-"}

\* {0,98}: the most interior characters
MaxInterior == 98

\* [first][interior]{0,98}[last] over the whole of s
MatchesBody(s) ==
    /\ Len(s) >= 2
    /\ Len(s) - 2 <= MaxInterior
    /\ Fold(s[1]) \in FirstClass
    /\ \A i \in 2..(Len(s) - 1) : Fold(s[i]) \in InteriorClass
    /\ Fold(s[Len(s)]) \in LastClass

\* bool(_validname_re.match(name)): ^ is the start of the name, $ is its end
\* or the place before a newline that ends it
isvalidname(s) ==
    \/ MatchesBody(s)
    \/ /\ s # <<>>
       /\ s[Len(s)] = "\n"
       /\ MatchesBody(SubSeq(s, 1, Len(s) - 1))

\* the longest of the short names
MaxName == 3

\* characters of every class, and of none
NameChars == {"a", "Z", "0", ".", "-", "~", " ", "\\", "\n", "!"}

\* the names of length 0..n over NameChars
RECURSIVE ShortNames(_)
ShortNames(n) ==
    IF n = 0 THEN {<<>>}
    ELSE ShortNames(n - 1) \cup
         {Append(s, c) : s \in ShortNames(n - 1), c \in NameChars}

\* names around the longest valid one: n letters, or n - 1 letters and
\* another last character
LongNames ==
    {[i \in 1..n |-> IF i = n THEN c ELSE "a"] :
        n \in (MaxInterior + 1)..(MaxInterior + 4), c \in NameChars}

Names == ShortNames(MaxName) \cup LongNames

\* no request is being handled
NoRequest ==
    /\ desc \in {d \in Descriptors : d.required = <<>>}
    /\ parameters = NoParameters
    /\ pc = "idle"
    /\ exc = ""
    /\ stream = <<>>
    /\ bi = 0
    /\ results = <<>>
    /\ ei = 0
    /\ entry = NoEntry
    /\ searches = <<>>
    /\ events = <<>>
    /\ items = <<>>
    /\ filter = <<>>
    /\ iteration = 1
    /\ first = NoFirst

InitName ==
    /\ NoRequest
    /\ name \in Names
    /\ valid = "unknown"
    /\ module = {}
    /\ handlers = <<>>

\* isvalidname(name)
IsValidName ==
    /\ valid = "unknown"
    /\ valid' = IF isvalidname(name) THEN "True" ELSE "False"
    /\ UNCHANGED <<desc, parameters, pc, exc, stream, bi, results, ei, entry,
                   searches, events, items, filter, iteration, first>>
    /\ UNCHANGED <<name, module, handlers>>

SpecName == InitName /\ [][IsValidName]_vars

(***************************************************************************)
(* get_handlers.  A module is the set of the names it defines; what a name *)
(* stands for is fixed: a class (with its parent, and the action it        *)
(* assigns, if any) or something that is not a class.                      *)
(***************************************************************************)
\* the names a module may define, in the order inspect.getmembers gives them
MemberNames ==
    <<"Other", "PasswdAllRequest", "PasswdByNameRequest", "PasswdByUidRequest",
      "PasswdRequest", "Request", "Search", "ShadowByNameRequest", "attmap">>

\* a class: its parent and the action its body assigns (none: <<>>)
Class(parent, action) == [isclass |-> TRUE, parent |-> parent, action |-> action]

\* what each name stands for
Members ==
    [n \in Range(MemberNames) |->
        CASE n = "Request" -> Class("object", <<>>)
          [] n = "Search" -> Class("object", <<>>)
          [] n = "Other" -> Class("object", <<"PASSWD_BYNAME">>)
          [] n = "PasswdRequest" -> Class("Request", <<>>)
          [] n = "PasswdAllRequest" -> Class("PasswdRequest", <<"PASSWD_ALL">>)
          [] n = "PasswdByNameRequest" -> Class("PasswdRequest", <<"PASSWD_BYNAME">>)
          [] n = "PasswdByUidRequest" -> Class("PasswdRequest", <<"PASSWD_BYUID">>)
          [] n = "ShadowByNameRequest" -> Class("PasswdByNameRequest", <<>>)
          [] OTHER -> [isclass |-> FALSE, parent |-> "object", action |-> <<>>]]

RECURSIVE issubclass(_, _)
\* issubclass(cls, base): cls is base or inherits from it
issubclass(cls, base) ==
    \/ cls = base
    \/ /\ Members[cls].parent # "object"
       /\ issubclass(Members[cls].parent, base)

RECURSIVE Attr(_)
\* the action attribute of a class, its own or inherited (none: <<>>)
Attr(cls) ==
    IF Members[cls].action # <<>> THEN Members[cls].action
    ELSE IF Members[cls].parent = "object" THEN <<>>
    ELSE Attr(Members[cls].parent)

\* hasattr(cls, 'action')
hasattr(cls) == Attr(cls) # <<>>

\* the test of a member with the subclass test left out
IsHandlerByActionOnly(cls) == hasattr(cls)

\* issubclass(cls, Request) and hasattr(cls, 'action')
IsHandler(cls) == issubclass(cls, "Request") /\ hasattr(cls)

\* res[key] = value
Put(res, key, value) ==
    [k \in DOMAIN res \cup {key} |-> IF k = key THEN value ELSE res[k]]

RECURSIVE Collect(_, _, _)
\* the loop over inspect.getmembers(module, inspect.isclass)
Collect(names, mod, res) ==
    IF names = <<>> THEN res
    ELSE LET cls == Head(names)
         IN IF cls \in mod /\ Members[cls].isclass /\ IsHandler(cls)
            THEN Collect(Tail(names), mod, Put(res, Attr(cls)[1], cls))
            ELSE Collect(Tail(names), mod, res)

\* get_handlers(module)
get_handlers(mod) == Collect(MemberNames, mod, [k \in {} |-> ""])

\* how often get_handlers is called on one module
MaxCalls == 2

InitHandlers ==
    /\ NoRequest
    /\ name = <<>>
    /\ valid = "unknown"
    /\ module \in SUBSET Range(MemberNames)
    /\ handlers = <<>>

\* get_handlers(module), called once more
GetHandlers ==
    /\ Len(handlers) < MaxCalls
    /\ handlers' = Append(handlers, get_handlers(module))
    /\ UNCHANGED <<desc, parameters, pc, exc, stream, bi, results, ei, entry,
                   searches, events, items, filter, iteration, first>>
    /\ UNCHANGED <<name, valid, module>>

SpecHandlers == InitHandlers /\ [][GetHandlers]_vars

(***************************************************************************)
(* Properties of one request (specification Spec).                         *)
(***************************************************************************)
VersionTag == Int32("NSLCD_VERSION")
ActionCode == Int32("action")
EndMarker == Int32("NSLCD_RESULT_END")

Count(seq, x) == Cardinality({i \in 1..Len(seq) : seq[i] = x})

\* the request has ended: it returned or it raised
Finished == pc \in {"done", "raised"}

\* the result records among the items written
Records(s) == SelectSeq(s, LAMBDA item : item.type = "record")

\* the records the entries of one search result give: one for every entry
\* with a DN that handle_entry returns, in the order of the list
Yields(list) ==
    LET kept == SelectSeq(list, LAMBDA e :
                    /\ e.dn # <<>>
                    /\ handle_entry(desc, parameters, e.dn, e.attributes).status
                           = "entry")
    IN [i \in 1..Len(kept) |->
           LET r == handle_entry(desc, parameters, kept[i].dn, kept[i].attributes)
           IN Record(r.dn, r.attributes)]

RECURSIVE YieldsOf(_)
\* the records of a search log, base by base
YieldsOf(log) ==
    IF log = <<>> THEN <<>> ELSE Yields(Head(log).entries) \o YieldsOf(Tail(log))

\* some search of the log ended as given
SomeSearch(outcome) == \E i \in 1..Len(searches) : searches[i].outcome = outcome

\* C1: a request whose parameters decode and whose searches raise no
\* directory error other than NO_SUCH_OBJECT ends with the end-of-results
\* marker written exactly once, as the last item of the stream.
C1_EndMarkerOnce ==
    (Finished /\ exc # "ProtocolDecodeError" /\ ~SomeSearch("error")) =>
        /\ pc = "done"
        /\ Count(stream, EndMarker) = 1
        /\ stream[Len(stream)] = EndMarker

\* C2: the version tag and then the action code are written, each exactly
\* once, after the parameters are read and before the first search, the
\* first record and the end marker.
C2_HeaderFirst ==
    /\ events # <<>> => events[1] = "read_parameters"
    /\ Len(stream) >= 1 => stream[1] = VersionTag
    /\ Len(stream) >= 2 => stream[2] = ActionCode
    /\ Count(stream, VersionTag) <= 1
    /\ Count(stream, ActionCode) <= 1
    /\ \A i \in 1..Len(events) :
           events[i] \in {"search_s", "handle_entry", "write"} => i > 3
    /\ (searches # <<>> \/ Records(stream) # <<>> \/ Count(stream, EndMarker) > 0) =>
           /\ Len(stream) >= 2
           /\ SubSeq(events, 1, 3) = <<"read_parameters", "write_int32", "write_int32">>

\* C2 witness: a record and the end marker follow the header of a request
\* that searched
C2_Witness ==
    /\ pc = "done"
    /\ Len(searches) = Len(bases)
    /\ Records(stream) # <<>>

\* C3: a directory error other than NO_SUCH_OBJECT ends the request with
\* that error: the failing search is the last call made (no record after it,
\* no search of a later base) and the end marker is never written.
C3_DirectoryErrorFatal ==
    \A i \in 1..Len(searches) :
        searches[i].outcome = "error" =>
            /\ pc = "raised"
            /\ exc = "DirectoryError"
            /\ i = Len(searches)
            /\ events[Len(events)] = "search_s"
            /\ Count(stream, EndMarker) = 0
            /\ Records(stream) = YieldsOf(SubSeq(searches, 1, i - 1))

\* C3 witness: the search of a later base fails after records were written
C3_Witness ==
    /\ exc = "DirectoryError"
    /\ Len(searches) = 2
    /\ Len(bases) > 2
    /\ Records(stream) # <<>>

\* C4: when the search on a base raises NO_SUCH_OBJECT (and no search
\* raises another directory error), the bases after it are all searched,
\* the records of the other bases are all written and the request ends
\* normally with the end marker.
C4_NoSuchObjectSkipped ==
    (Finished /\ SomeSearch("NO_SUCH_OBJECT") /\ ~SomeSearch("error")) =>
        /\ pc = "done"
        /\ exc = ""
        /\ Len(searches) = Len(bases)
        /\ Records(stream) = YieldsOf(searches)
        /\ stream[Len(stream)] = EndMarker

\* C5: a decode error while the parameters are read ends the request at
\* once: nothing is written and no search is issued.
C5_DecodeErrorAborts ==
    exc = "ProtocolDecodeError" =>
        /\ pc = "raised"
        /\ stream = <<>>
        /\ searches = <<>>
        /\ events = <<"read_parameters">>

\* C5 witness: the parameters failed to decode
C5_Witness == pc = "raised" /\ exc = "ProtocolDecodeError"

\* C6: the records of a request that completes are, in order and one each,
\* the entries with a DN that handle_entry accepts, base by base in the
\* order of the base list and within a base in the order of the result.
C6_RecordsAreAcceptedEntries ==
    pc = "done" =>
        stream = <<VersionTag, ActionCode>> \o YieldsOf(searches) \o <<EndMarker>>

\* C6 witness: a completed request that dropped an entry before it wrote
\* the record of a later one, and wrote the records of two bases
C6_Witness ==
    /\ pc = "done"
    /\ Len(Records(stream)) >= 2
    /\ \E i \in 1..Len(searches) :
           /\ Len(searches[i].entries) >= 2
           /\ Yields(<<searches[i].entries[1]>>) = <<>>
           /\ Yields(<<searches[i].entries[2]>>) # <<>>
    /\ \E i, j \in 1..Len(searches) :
           /\ i < j
           /\ Yields(searches[i].entries) # <<>>
           /\ Yields(searches[j].entries) # <<>>

(***************************************************************************)
(* Properties of handle_entry (specification SpecEntry).  While an         *)
(* accepted entry waits to be written, results[ei] is the entry the        *)
(* directory returned and entry is what handle_entry made of it.           *)
(***************************************************************************)
\* an entry that handle_entry returned is about to be written
Accepted == pc = "write"

\* the values of a field when the required and case-match checks run
CheckedValues(e, f) == Checked(desc, e.dn, e.attributes).attributes[f]

\* the non-empty value the first relative name of the DN gives a field
\* (NoneV when it gives none)
DnValue(dn, f) ==
    IF dn = <<>> \/ get_rdn_value(dn, attmap[f]).raised THEN NoneV
    ELSE get_rdn_value(dn, attmap[f]).value

\* the values of seq other than x, in order
Others(seq, x) == SelectSeq(seq, LAMBDA y : y # x)

\* C7: for a field of case_insensitive that the request gives a value
\* (whatever the value), every accepted entry held, when checked, a value
\* of the field equal to it under case folding.
C7_CaseInsensitiveConfirmed ==
    Accepted =>
        \A i \in 1..Len(desc.case_insensitive) :
            LET f == desc.case_insensitive[i]
            IN f \in DOMAIN parameters =>
                   \E x \in Range(CheckedValues(results[ei], f)) :
                       Lower(x) = Lower(Str(parameters[f]))

\* C8: for a field of case_sensitive that the request gives a value
\* (whatever the value), every accepted entry holds the string form of the
\* value verbatim among the values of the field.
C8_CaseSensitiveConfirmed ==
    Accepted =>
        \A i \in 1..Len(desc.case_sensitive) :
            LET f == desc.case_sensitive[i]
            IN f \in DOMAIN parameters =>
                   Str(parameters[f]) \in Range(CheckedValues(results[ei], f))

\* C9: for a field of canonical_first whose DN value is present (and that
\* limit_attributes does not overwrite), an accepted entry has the DN value
\* first and exactly once among the values of the field, and the other
\* values in the order the directory gave them.
C9_CanonicalFirstOnce ==
    Accepted =>
        \A i \in 1..Len(desc.canonical_first) :
            LET f == desc.canonical_first[i]
                primary == DnValue(results[ei].dn, f)
                given == Translate(results[ei].attributes)[f]
                values == entry.attributes[f]
            IN (/\ Truthy(primary)
                /\ ~(f \in Range(desc.limit_attributes) /\ f \in DOMAIN parameters)) =>
                   /\ values # <<>>
                   /\ values[1] = primary
                   /\ Count(values, primary) = 1
                   /\ Others(values, primary) = Others(given, primary)

\* a required field has no value in the attributes of the entry
Lacks(e, f) == Translate(e.attributes)[f] = <<>>

\* the field is also in canonical_first and the DN gives it a value
SuppliedByDn(e, f) ==
    f \in Range(desc.canonical_first) /\ Truthy(DnValue(e.dn, f))

\* C10 as claimed: every entry whose attributes hold no value for a field
\* of required is rejected, whatever its DN and the other lists of the field.
C10_MissingRequiredRejected ==
    Accepted =>
        \A i \in 1..Len(desc.required) : ~Lacks(results[ei], desc.required[i])

\* C10 as amended: an entry whose attributes hold no value for a field of
\* required is never returned by handle_entry and never written, unless the
\* field is also in canonical_first and the first relative name of the DN
\* gives it a non-empty value.
C10_MissingRequiredRejectedUnlessInDn ==
    LET missing(e) == \E i \in 1..Len(desc.required) :
                          /\ Lacks(e, desc.required[i])
                          /\ ~SuppliedByDn(e, desc.required[i])
    IN /\ Accepted => ~missing(results[ei])
       /\ (\A i \in 1..Len(searches) : \A k \in 1..Len(searches[i].entries) :
               missing(searches[i].entries[k])) => Records(stream) = <<>>

\* C10 witness: handle_entry has rejected an entry with a DN that lacks a
\* required field which is in every other list too, and the request ended
\* without a record
C10_Witness ==
    /\ pc = "done"
    /\ entry.status = "None"
    /\ searches[Len(searches)].entries[1].dn # <<>>
    /\ Lacks(searches[Len(searches)].entries[1], "uid")
    /\ desc.required = <<"uid">>
    /\ desc.canonical_first = <<"uid">>
    /\ desc.case_sensitive = <<"uid">>
    /\ desc.case_insensitive = <<"uid">>
    /\ desc.limit_attributes = <<"uid">>
    /\ "uid" \in DOMAIN parameters
    /\ Records(stream) = <<>>

\* C11: every entry handle_entry returns, and every record written, has at
\* least one value for every field of required, also when limit_attributes
\* has overwritten the field.
C11_RequiredNonEmpty ==
    /\ Accepted =>
           \A i \in 1..Len(desc.required) : entry.attributes[desc.required[i]] # <<>>
    /\ \A k \in 1..Len(stream) :
           stream[k].type = "record" =>
               \A i \in 1..Len(desc.required) :
                   stream[k].attributes[desc.required[i]] # <<>>

\* C11 witness: a record was written for an entry whose required field was
\* overwritten by limit_attributes
C11_Witness ==
    /\ pc = "done"
    /\ Records(stream) # <<>>
    /\ desc.required = <<"uid">>
    /\ desc.limit_attributes = <<"uid">>
    /\ "uid" \in DOMAIN parameters

\* C12: in an accepted entry a field of limit_attributes that the request
\* gives holds exactly the one value of the request, every other field holds
\* the values it had when checked, and the required and case-match checks
\* have passed on the values from before the overwrite.
C12_LimitAfterChecks ==
    Accepted =>
        /\ \A f \in Fields :
               IF f \in Range(desc.limit_attributes) /\ f \in DOMAIN parameters
               THEN entry.attributes[f] = <<parameters[f]>>
               ELSE entry.attributes[f] = CheckedValues(results[ei], f)
        /\ \A i \in 1..Len(desc.required) :
               CheckedValues(results[ei], desc.required[i]) # <<>>
        /\ \A i \in 1..Len(desc.case_sensitive) :
               LET f == desc.case_sensitive[i]
               IN (f \in DOMAIN parameters /\ Truthy(parameters[f])) =>
                      Str(parameters[f]) \in Range(CheckedValues(results[ei], f))
        /\ \A i \in 1..Len(desc.case_insensitive) :
               LET f == desc.case_insensitive[i]
               IN (f \in DOMAIN parameters /\ Truthy(parameters[f])) =>
                      \E x \in Range(CheckedValues(results[ei], f)) :
                          Lower(x) = Lower(Str(parameters[f]))

\* C12 witness: the overwrite replaced several directory values, found to
\* match without regard to case, by the value of the request
C12_Witness ==
    /\ Accepted
    /\ desc.limit_attributes = <<"uid">>
    /\ desc.case_insensitive = <<"uid">>
    /\ "uid" \in DOMAIN parameters
    /\ Len(CheckedValues(results[ei], "uid")) >= 2
    /\ parameters["uid"] \notin Range(CheckedValues(results[ei], "uid"))
    /\ entry.attributes["uid"] = <<parameters["uid"]>>

\* the first relative name of the DN has no value for the directory
\* attribute of some field of canonical_first
RdnLacksCanonical(e) ==
    /\ e.dn # <<>>
    /\ \E i \in 1..Len(desc.canonical_first) :
           get_rdn_value(e.dn, attmap[desc.canonical_first[i]]).raised

\* C18: when the first relative name of the DN does not hold the attribute
\* of a canonical_first field, get_rdn_value gives no value and raises
\* nothing: handle_entry goes on to its checks (it returns the entry or
\* rejects it) and the request is not aborted by that entry.
C18_AbsentRdnValueTolerated ==
    \A i \in 1..Len(searches) : \A k \in 1..Len(searches[i].entries) :
        RdnLacksCanonical(searches[i].entries[k]) =>
            /\ exc # "KeyError"
            /\ entry.status # "KeyError"

(***************************************************************************)
(* Further properties of one request (specification Spec).                 *)
(***************************************************************************)
\* C16: within one request a base is searched at most once: the searches
\* made are those of the first bases of the list, one each and in order,
\* whatever their outcome.
C16_EachBaseOnce ==
    /\ Len(searches) <= Len(bases)
    /\ \A i \in 1..Len(searches) : searches[i].base = bases[i]
    /\ \A i, j \in 1..Len(searches) :
           searches[i].base = searches[j].base => i = j
    /\ Count(events, "search_s") = Len(searches)

\* C16 witness: a request that ended after a base that does not exist, a
\* base with entries and a base whose search failed
C16_Witness ==
    /\ pc = "raised"
    /\ Len(searches) = 3
    /\ searches[1].outcome = "NO_SUCH_OBJECT"
    /\ searches[2].outcome = "entries"
    /\ searches[2].entries # <<>>
    /\ searches[3].outcome = "error"

\* the searches before the one whose entries are being handled
Earlier == SubSeq(searches, 1, Len(searches) - 1)

\* C19: results are pulled one by one: when an entry is about to be
\* reconciled the records of all accepted entries before it are written,
\* when a search is about to be issued (or has failed) the records of all
\* earlier bases are written, and a yielded entry is written before
\* anything else happens.
C19_RecordsInterleaved ==
    /\ pc = "iter" =>
           Records(stream) = YieldsOf(Earlier) \o Yields(SubSeq(results, 1, ei - 1))
    /\ pc = "write" =>
           /\ Records(stream) = YieldsOf(Earlier) \o Yields(SubSeq(results, 1, ei - 1))
           /\ Yields(<<results[ei]>>) = <<Record(entry.dn, entry.attributes)>>
           /\ events[Len(events)] = "handle_entry"
    /\ (pc = "search" /\ exc = "") => Records(stream) = YieldsOf(searches)
    /\ exc = "DirectoryError" => Records(stream) = YieldsOf(Earlier)

\* C19 witness: the record of the first entry is on the stream while the
\* second entry of the same base waits to be reconciled
C19_Witness ==
    /\ pc = "iter"
    /\ ei = 2
    /\ Len(results) >= 2
    /\ results[2].dn # <<>>
    /\ Len(Records(stream)) = 1
    /\ events[Len(events)] = "write"

\* one parenthesised test of the filter: (attribute=value), the attribute
\* under its name in the directory and the value escaped
Clause(key) ==
    <<"(">> \o Chars(attmap[key]) \o <<"=">> \o
    escape_filter_chars(Chars(Str(parameters[key]).s)) \o <<")">>

RECURSIVE Clauses(_)
\* the tests of the keys of a sequence, one after the other
Clauses(keys) ==
    IF keys = <<>> THEN <<>> ELSE Clause(Head(keys)) \o Clauses(Tail(keys))

\* the search filters of a request for uid "*" and gecos "a"
TwoKeyFilters ==
    { <<"(", "&", "(", "o", "c", "=", "p", ")",
        "(", "u", "i", "d", "=", "\\", "2", "a", ")",
        "(", "c", "n", "=", "a", ")", ")">>,
      <<"(", "&", "(", "o", "c", "=", "p", ")",
        "(", "c", "n", "=", "a", ")",
        "(", "u", "i", "d", "=", "\\", "2", "a", ")", ")">> }

\* C14: the search filter is the base filter when the request has no
\* parameters, and otherwise "(&", the base filter, one "(attr=value)" test
\* per parameter (each exactly once, the attribute under its directory name,
\* the value escaped) and ")"; every base of the request is searched with
\* that same filter.
C14_FilterFromParameters ==
    /\ (filter # <<>> /\ DOMAIN parameters = {}) => filter = base_filter
    /\ (filter # <<>> /\ DOMAIN parameters # {}) =>
           \E keys \in Orders(parameters) :
               filter = <<"(", "&">> \o base_filter \o Clauses(keys) \o <<")">>
    /\ (filter # <<>> /\ parameters = TwoKeys) => filter \in TwoKeyFilters
    /\ \A i \in 1..Len(searches) : searches[i].filter = filter

\* C14 witness: two bases have been searched for uid "*" and gecos "a"
C14_Witness ==
    /\ parameters = TwoKeys
    /\ filter \in TwoKeyFilters
    /\ Len(searches) >= 2
    /\ searches[1].filter = searches[2].filter

(***************************************************************************)
(* Properties of a Search iterated twice (specification SpecTwice).        *)
(***************************************************************************)
\* the iteration is over: the generator is exhausted or has raised
Over == (pc = "search" /\ bi > Len(bases)) \/ pc = "raised"

\* s is the beginning of t
IsPrefix(s, t) == Len(s) <= Len(t) /\ s = SubSeq(t, 1, Len(s))

Grammar(s) ==
    /\ Len(s) >= 2
    /\ Len(s) <= 100
    /\ Fold(s[1]) \in FirstClass
    /\ Fold(s[Len(s)]) \in FirstClass \cup {"~", "-"}
    /\ \A i \in 2..(Len(s) - 1) : Fold(s[i]) \in FirstClass \cup {" ", "~", "-"}

\* C13: isvalidname returns true exactly for the names of the grammar, and
\* false for every other string (empty, one character, more than 100
\* characters, a character outside the class of its position).
C13_ValidExactlyGrammar ==
    valid # "unknown" => (valid = "True" <=> Grammar(name))

(***************************************************************************)
(* Properties of get_handlers (specification SpecHandlers).                *)
(***************************************************************************)
\* the Request handlers that have an action code, and their codes
CodeOf ==
    [n \in {"PasswdAllRequest", "PasswdByNameRequest", "PasswdByUidRequest",
            "ShadowByNameRequest"} |->
        CASE n = "PasswdAllRequest" -> "PASSWD_ALL"
          [] n = "PasswdByUidRequest" -> "PASSWD_BYUID"
          [] OTHER -> "PASSWD_BYNAME"]

\* C17: the keys of what get_handlers returns are exactly the action codes
\* of the Request handlers with an action code that the module defines, each
\* key is mapped to such a handler of the module with that code, nothing
\* else appears (not Request, not a handler without a code, not another
\* class, not a non-class), and every call on the module returns the same.
C17_HandlersByAction ==
    \A c \in 1..Len(handlers) :
        /\ DOMAIN handlers[c] = {CodeOf[n] : n \in module \cap DOMAIN CodeOf}
        /\ \A k \in DOMAIN handlers[c] :
               /\ handlers[c][k] \in module \cap DOMAIN CodeOf
               /\ CodeOf[handlers[c][k]] = k
        /\ handlers[c] = handlers[1]

\* C17 witness: a module with Request, a handler without a code, two classes
\* that are not handlers, a non-class and two handlers of one code, asked twice
C17_Witness ==
    /\ Len(handlers) = 2
    /\ {"Request", "PasswdRequest", "Search", "Other", "attmap",
        "PasswdByNameRequest", "ShadowByNameRequest", "PasswdByUidRequest"}
           \subseteq module
    /\ DOMAIN handlers[2] = {"PASSWD_BYNAME", "PASSWD_BYUID"}

=============================================================================
